---- MODULE Spec2Model ----
(***************************************************************************)
(* PRODE WorkTimeAsistem (src/app.py): a Streamlit script that is re-run   *)
(* from top to bottom on every user interaction.  One action of this       *)
(* module is one re-run of the script, triggered by one widget event.      *)
(*                                                                         *)
(* Conventions                                                             *)
(*  - a text (key, name, typed input) is a sequence of tokens; the token   *)
(*    " " is whitespace, so that str.strip() is computed, not assumed;     *)
(*  - a date is a record [y, m, d]; weekday() and monthrange() are         *)
(*    computed with the proleptic Gregorian ordinal, as datetime does;     *)
(*  - hours are exact numbers of minutes (38.5 h = 2310, 7.7 h = 462);     *)
(*    NaN is the value NaN below;                                          *)
(*  - the lists kept in session_state.dias_por_empleado are only ever read *)
(*    through membership (d in ausencias, d in fechas), so each list is    *)
(*    modelled by the set of its elements.                                 *)
(***************************************************************************)
EXTENDS Integers, Sequences, FiniteSets, TLC

(* ------------------------------------------------------------------ *)
(* Bounds of the model                                                *)
(* ------------------------------------------------------------------ *)
MaxFilas == 2        \* rows of an uploaded file
MaxTokens == 1       \* comma separated tokens typed in the holiday input

(* ------------------------------------------------------------------ *)
(* CONFIG                                                             *)
(* ------------------------------------------------------------------ *)
WS == " "
ADMIN_KEY == <<"PRODE-ADMIN-ADMIN">>
DEFAULT_KEYS ==
  << <<"PRODE-ADMIN-ADMIN">>, <<"PRODE-ULTIMAMILLA-DGC">>,
     <<"PRODE-ULTIMAMILLA-JLM">>, <<"PRODE-CAPITALHUMANO-ZMGR">> >>

HORAS_SEMANALES == 2310
HORAS_LABORALES_DIA == HORAS_SEMANALES \div 5

CURRENT_YEAR == 2025

Fecha(y, m, d) == [y |-> y, m |-> m, d |-> d]

DEFAULT_FESTIVOS ==
  { Fecha(CURRENT_YEAR, 1, 1), Fecha(CURRENT_YEAR, 1, 6), Fecha(CURRENT_YEAR, 5, 1),
    Fecha(CURRENT_YEAR, 8, 15), Fecha(CURRENT_YEAR, 10, 12), Fecha(CURRENT_YEAR, 11, 1),
    Fecha(CURRENT_YEAR, 12, 6), Fecha(CURRENT_YEAR, 12, 8), Fecha(CURRENT_YEAR, 12, 25) }
FESTIVOS_ANDALUCIA == { Fecha(CURRENT_YEAR, 2, 28) }

NaN == -1
NoFecha == [y |-> 0, m |-> 0, d |-> 0]   \* what an unparseable date yields (None / NaT)
NoPeriodo == [year |-> 0, month |-> 0]
NoFile == [ext |-> "", columnas |-> {}, filas |-> << >>]
Motivos == {"Vacaciones", "Permiso", "Baja médica"}

(* ------------------------------------------------------------------ *)
(* HELPERS                                                            *)
(* ------------------------------------------------------------------ *)
Range(s) == { s[i] : i \in DOMAIN s }

RECURSIVE LStrip(_)
LStrip(t) == IF t # << >> /\ Head(t) = WS THEN LStrip(Tail(t)) ELSE t

RECURSIVE RStrip(_)
RStrip(t) ==
  IF t # << >> /\ t[Len(t)] = WS THEN RStrip(SubSeq(t, 1, Len(t) - 1)) ELSE t

\* str.strip()
Strip(t) == RStrip(LStrip(t))

IsLeap(y) == (y % 4 = 0) /\ ((y % 100 # 0) \/ (y % 400 = 0))

\* calendar.monthrange(year, month)[1]
DaysInMonth(y, m) ==
  IF m = 2 THEN (IF IsLeap(y) THEN 29 ELSE 28)
  ELSE IF m \in {4, 6, 9, 11} THEN 30 ELSE 31

RECURSIVE DaysBeforeMonth(_, _)
DaysBeforeMonth(y, m) ==
  IF m = 1 THEN 0 ELSE DaysBeforeMonth(y, m - 1) + DaysInMonth(y, m - 1)

DaysBeforeYear(y) ==
  (y - 1) * 365 + ((y - 1) \div 4) - ((y - 1) \div 100) + ((y - 1) \div 400)

Ordinal(f) == DaysBeforeYear(f.y) + DaysBeforeMonth(f.y, f.m) + f.d

\* safe_parse_date / pd.to_datetime(errors="coerce"): the date a token denotes, or
\* None / NaT (NoFecha) when the token is no calendar date
safe_parse_date(x) ==
  IF x.m \in 1..12 /\ x.d \in 1..DaysInMonth(x.y, x.m) THEN x ELSE NoFecha

\* date.weekday(): Monday is 0, Sunday is 6
Weekday(f) == (Ordinal(f) + 6) % 7

\* list(daterange(date(year, month, 1), date(year, month, last)))
daterange(y, m) == [ i \in 1..DaysInMonth(y, m) |-> Fecha(y, m, i) ]

RECURSIVE SumSeq(_)
SumSeq(s) == IF s = << >> THEN 0 ELSE Head(s) + SumSeq(Tail(s))

RECURSIVE SumSet(_, _)
SumSet(f, S) ==
  IF S = {} THEN 0
  ELSE LET x == CHOOSE x \in S : TRUE IN f[x] + SumSet(f, S \ {x})

Max(a, b) == IF a >= b THEN a ELSE b

(* ------------------------------------------------------------------ *)
(* State                                                              *)
(* ------------------------------------------------------------------ *)
VARIABLES
  activated, current_key, is_admin, user_keys,   \* st.session_state (auth)
  dias_por_empleado,                             \* st.session_state.dias_por_empleado
  key_input,                                     \* text held by "Introduce tu clave"
  uploaded,                                      \* the file held by the uploader
  festivos_input,                                \* text typed in "Fechas festivas"
  festivos_todos,                                \* checkbox key="festivos_todos" (line 337)
  aplicar_todos_festivos,                        \* second checkbox (line 393)
  empleado_festivos,                             \* selectbox key="empleado_festivos"
  etapa,                                         \* where the last run of the script ended
  periodo,                                       \* year and month detected by the last run
  festivos_objetivos,                            \* the holiday set of the last run
  global_data,                                   \* the summaries of the last run
  vista,                                         \* the on-screen badges of the last run
  pdf_global,                                    \* the row shading of the summary PDF
  descargas,                                     \* the downloads offered by the last run
  carpeta                                        \* the PDF files in the informes folders

vars ==
  << activated, current_key, is_admin, user_keys, dias_por_empleado, key_input, uploaded,
     festivos_input, festivos_todos, aplicar_todos_festivos, empleado_festivos,
     etapa, periodo, festivos_objetivos, global_data, vista, pdf_global, descargas,
     carpeta >>

(* ------------------------------------------------------------------ *)
(* Read file (Excel / CSV)                                            *)
(* ------------------------------------------------------------------ *)
Roles == {"nombre", "fecha", "horas"}

\* one row of the frame built at lines 267-275 / 294-302; fecha = NoFecha is NaT
FilaLeida(raw) ==
  [nombre |-> Strip(raw.nombre), fecha |-> safe_parse_date(raw.fecha), horas |-> raw.horas]

\* dropna(subset=["fecha"]) and the filter on blank names
FilaValida(f) ==
  f.fecha # NoFecha /\ f.nombre \notin { << >>, <<"nan">>, <<"None">> }

RECURSIVE LeerFilas(_)
LeerFilas(filas) ==
  IF filas = << >> THEN << >>
  ELSE LET f == FilaLeida(Head(filas))
       IN (IF FilaValida(f) THEN <<f>> ELSE << >>) \o LeerFilas(Tail(filas))

\* the try block of lines 240-307: ok is FALSE when the run stops with st.error
LeerFichero(file) ==
  IF file.ext \notin {"xlsx", "xls", "csv"} \/ ~(Roles \subseteq file.columnas)
  THEN [ok |-> FALSE, df |-> << >>]
  ELSE [ok |-> TRUE, df |-> LeerFilas(file.filas)]

\* the st.error messages of a run that stops for missing columns: the Excel branch
\* (lines 263-266) lists the columns found, the CSV branch (lines 291-293) does not
ErroresLectura(file) ==
  IF Roles \subseteq file.columnas THEN {}
  ELSE IF file.ext \in {"xlsx", "xls"}
  THEN {"No se detectaron las columnas requeridas en el Excel/CSV.", "Columnas encontradas"}
  ELSE {"No se detectaron columnas válidas en el CSV."}

(* ------------------------------------------------------------------ *)
(* Detect month/year                                                  *)
(* ------------------------------------------------------------------ *)
Veces(s, v) == Cardinality({ i \in DOMAIN s : s[i] = v })

\* Series.mode()[0]: the smallest of the most frequent values
Moda(s) ==
  CHOOSE v \in Range(s) :
    \A w \in Range(s) : Veces(s, w) < Veces(s, v) \/ (Veces(s, w) = Veces(s, v) /\ v <= w)

DetectMonth(df) == Moda([ i \in DOMAIN df |-> df[i].fecha.m ])
DetectYear(df) == Moda([ i \in DOMAIN df |-> df[i].fecha.y ])

(* ------------------------------------------------------------------ *)
(* Procesado y generación de datos globales                           *)
(* ------------------------------------------------------------------ *)
\* the employee names of the model, in the order sorted() and groupby() give them
OrdenNombres == << <<"Ana">>, <<"Luis">> >>

\* sorted(df["nombre"].unique())
NombresOrdenados(df) ==
  SelectSeq(OrdenNombres, LAMBDA n : \E i \in DOMAIN df : df[i].nombre = n)

\* g: the rows of one employee, in file order
Grupo(df, nombre) == SelectSeq(df, LAMBDA f : f.nombre = nombre)

\* a plausible slip: the last row of a date replaces the earlier ones instead of adding
HorasDeFecha_ultima(g, d) ==
  LET is == { i \in DOMAIN g : g[i].fecha = d }
      u == CHOOSE i \in is : \A j \in is : j <= i
  IN IF is = {} \/ g[u].horas = NaN THEN 0 ELSE g[u].horas

\* g.groupby("fecha")["horas"].sum() at one date: NaN is skipped by sum()
HorasDeFecha(g, d) ==
  SumSeq([ i \in DOMAIN g |-> IF g[i].fecha = d /\ g[i].horas # NaN THEN g[i].horas ELSE 0 ])

\* mapa: date -> summed hours, one key per date that has a row
mapa_horas(g) ==
  [ d \in { g[i].fecha : i \in DOMAIN g } |-> HorasDeFecha(g, d) ]

\* s.sum(): the sum over the dates of the per-date sums
total_horas(g) == LET s == mapa_horas(g) IN SumSet(s, DOMAIN s)

\* resumen_empleados (lines 408-415)
resumen_empleados(df) ==
  LET ns == NombresOrdenados(df)
  IN [ i \in DOMAIN ns |->
         [nombre |-> ns[i], mapa_horas |-> mapa_horas(Grupo(df, ns[i])),
          total_horas |-> total_horas(Grupo(df, ns[i]))] ]

\* chain.from_iterable(dias_por_empleado.get(nombre, {}).values()), [] when the
\* employee has no entry or an empty one
Ausencias(dpe, nombre) ==
  IF nombre \in DOMAIN dpe /\ DOMAIN dpe[nombre] # {}
  THEN UNION { dpe[nombre][k] : k \in DOMAIN dpe[nombre] }
  ELSE {}

\* a plausible slip: the declared absence days are not taken out
dias_laborables_sin_ausencias(dias_mes, festivos_personal, ausencias, mapa) ==
  SelectSeq(dias_mes, LAMBDA d :
    /\ Weekday(d) < 5
    /\ (d \notin festivos_personal \/ d \in DOMAIN mapa))

\* dias_laborables (lines 427-437)
dias_laborables(dias_mes, festivos_personal, ausencias, mapa) ==
  SelectSeq(dias_mes, LAMBDA d :
    /\ Weekday(d) < 5
    /\ (d \notin festivos_personal \/ d \in DOMAIN mapa)
    /\ d \notin ausencias)

\* mapa.get(d, 0)
Get(mapa, d) == IF d \in DOMAIN mapa THEN mapa[d] ELSE 0

\* dias_fichados (line 447), as the list whose length is taken
dias_fichados_list(laborables, mapa) ==
  SelectSeq(laborables, LAMBDA d : d \in DOMAIN mapa /\ Get(mapa, d) > 0)

\* a plausible slip: every working day that is no holiday is listed, worked or not
dias_sin_fichar_list_todos(laborables, festivos_personal, mapa) ==
  SelectSeq(laborables, LAMBDA d : d \notin festivos_personal)

\* a plausible slip: the holiday test is inverted
dias_sin_fichar_list_festivos(laborables, festivos_personal, mapa) ==
  SelectSeq(laborables, LAMBDA d :
    /\ d \in festivos_personal
    /\ (d \notin DOMAIN mapa \/ Get(mapa, d) = 0))

\* dias_sin_fichar_list: the second assignment (lines 449-453) is the one that stands
dias_sin_fichar_list(laborables, festivos_personal, mapa) ==
  SelectSeq(laborables, LAMBDA d :
    /\ d \notin festivos_personal
    /\ (d \notin DOMAIN mapa \/ Get(mapa, d) = 0))

\* a plausible slip: the weekly constant is used as the daily one
objetivo_mes_semanal(laborables) == Len(laborables) * HORAS_SEMANALES

\* objetivo_mes (line 442)
objetivo_mes(laborables) == Len(laborables) * HORAS_LABORALES_DIA

\* one entry of global_data (lines 422-469); dias_laborables is the local list
Entrada(r, dias_mes, festivos, dpe) ==
  LET festivos_personal == festivos
      ausencias == Ausencias(dpe, r.nombre)
      lab == dias_laborables(dias_mes, festivos_personal, ausencias, r.mapa_horas)
      objetivo == objetivo_mes(lab)
      diferencia == r.total_horas - objetivo
      sin == dias_sin_fichar_list(lab, festivos_personal, r.mapa_horas)
  IN [Empleado |-> r.nombre,
      HorasTotales |-> r.total_horas,
      ObjetivoMes |-> objetivo,
      Diferencia |-> diferencia,
      HorasExtra |-> Max(0, diferencia),
      DiasConFichaje |-> Len(dias_fichados_list(lab, r.mapa_horas)),
      DiasSinFichaje |-> Len(sin),
      FechasSinFichar |-> sin,
      mapa_horas |-> r.mapa_horas,
      Ausencias |-> ausencias,
      dias_laborables |-> lab]

GlobalData(df, year, month, festivos, dpe) ==
  LET rs == resumen_empleados(df)
      dias_mes == daterange(year, month)
  IN [ i \in DOMAIN rs |-> Entrada(rs[i], dias_mes, festivos, dpe) ]

(* ------------------------------------------------------------------ *)
(* Severity: on-screen badge and summary PDF row                      *)
(* ------------------------------------------------------------------ *)
\* a plausible slip: the critical band starts one day early
color_umbral(dias_sin) ==
  IF dias_sin >= 4 THEN "#f8d7da" ELSE IF dias_sin > 2 THEN "#fff3cd" ELSE "#e6ffef"

\* color (lines 485-487)
color(dias_sin) ==
  IF dias_sin > 4 THEN "#f8d7da" ELSE IF dias_sin > 2 THEN "#fff3cd" ELSE "#e6ffef"

\* row_color of generate_pdf_global_report (lines 765-779)
row_color(dias_sin, horas_extra, diferencia) ==
  IF dias_sin > 4 THEN "COLOR_SIN_GRAVE"
  ELSE IF dias_sin > 2 THEN "COLOR_SIN_MODERADO"
  ELSE IF horas_extra > 0 THEN "COLOR_HORA_EXTRA"
  ELSE IF diferencia < 0 THEN "COLOR_DEFICIT"
  ELSE "whitesmoke"

Vista(gd) == [ i \in DOMAIN gd |-> color(gd[i].DiasSinFichaje) ]
PdfGlobal(gd) ==
  [ i \in DOMAIN gd |->
      row_color(gd[i].DiasSinFichaje, gd[i].HorasExtra, gd[i].Diferencia) ]

(* ------------------------------------------------------------------ *)
(* Festivos manuales y ausencias                                      *)
(* ------------------------------------------------------------------ *)
\* manual_festivos (lines 343-347 and 359-363): the tokens that parse, in order
manual_festivos(input) ==
  SelectSeq([ i \in DOMAIN input |-> safe_parse_date(input[i]) ],
            LAMBDA d : d # NoFecha)

\* the value of a selectbox over sorted(df["nombre"].unique()): the user's choice
\* while it is one of the options, the first option otherwise
Seleccionado(choice, df) ==
  LET ns == NombresOrdenados(df)
  IN IF choice \in Range(ns) THEN choice ELSE ns[1]

\* dias_por_empleado.setdefault(emp, {})
SetDefaultEmpleado(dpe, emp) ==
  IF emp \in DOMAIN dpe THEN dpe
  ELSE [ e \in DOMAIN dpe \cup {emp} |-> IF e = emp THEN << >> ELSE dpe[e] ]

\* dias_por_empleado[emp].setdefault(motivo, [])
SetDefaultMotivo(dpe, emp, motivo) ==
  IF motivo \in DOMAIN dpe[emp] THEN dpe
  ELSE [dpe EXCEPT ![emp] =
          [ k \in DOMAIN dpe[emp] \cup {motivo} |->
              IF k = motivo THEN {} ELSE dpe[emp][k] ]]

\* setdefault, setdefault, extend (lines 355-357, 367-369)
Guardar(dpe, emp, motivo, fechas) ==
  LET d1 == SetDefaultMotivo(SetDefaultEmpleado(dpe, emp), emp, motivo)
  IN [d1 EXCEPT ![emp][motivo] = @ \cup fechas]

\* festivos_objetivos (lines 395-400)
FestivosObjetivos(manual, aplicar_todos) ==
  (DEFAULT_FESTIVOS \cup FESTIVOS_ANDALUCIA)
    \cup (IF manual # << >> /\ aplicar_todos THEN Range(manual) ELSE {})

(* ------------------------------------------------------------------ *)
(* Session defaults & auth                                            *)
(* ------------------------------------------------------------------ *)
\* a plausible slip: the admin key is offered for removal like any other
OpcionesEliminar_todas(keys) == keys

\* the options of the "Eliminar clave" selectbox (line 219)
OpcionesEliminar(keys) == SelectSeq(keys, LAMBDA k : k # ADMIN_KEY)

\* list.remove(x): drops the first occurrence
RECURSIVE Remove(_, _)
Remove(keys, x) ==
  IF keys = << >> THEN << >>
  ELSE IF Head(keys) = x THEN Tail(keys)
  ELSE <<Head(keys)>> \o Remove(Tail(keys), x)

\* a plausible slip: the typed key is not looked up in the list
ClaveAceptada_cualquiera(btn, a) == btn = "Activar"

\* "Activar" pressed with a key of the list (lines 202-203)
ClaveAceptada(btn, a) == btn = "Activar" /\ Strip(a.key_input) \in Range(user_keys)

\* user_keys after the admin panel (lines 211-222)
ClavesTrasPanel(btn, a) ==
  IF btn = "AnadirClave" /\ a.nueva # << >> /\ a.nueva \notin Range(user_keys)
  THEN Append(user_keys, a.nueva)
  ELSE IF btn = "EliminarClave" /\ OpcionesEliminar(user_keys) # << >>
  THEN Remove(user_keys, a.to_del)
  ELSE user_keys

(* ------------------------------------------------------------------ *)
(* One run of the script                                              *)
(* ------------------------------------------------------------------ *)
\* safe_name (line 503): "/", "\\" and blanks become "_"
safe_name(n) == [ i \in DOMAIN n |-> IF n[i] \in {"/", "\\", WS} THEN "_" ELSE n[i] ]

\* pdf_name (line 504) and out_global (line 819)
pdf_name(n, year, month) ==
  [doc |-> "Asistencia", nombre |-> safe_name(n), year |-> year, month |-> month]
out_global(year, month) ==
  [doc |-> "Resumen_Global_Asistencia", nombre |-> << >>, year |-> year, month |-> month]

\* the download buttons of a processing run: one per employee whose PDF is in the
\* folder (lines 507-514), and the summary (lines 824-829)
Descargas(gd, year, month, disco) ==
  { pdf_name(gd[i].Empleado, year, month) :
      i \in { j \in DOMAIN gd : pdf_name(gd[j].Empleado, year, month) \in disco } }
    \cup { out_global(year, month) }

\* what a run leaves when it stops before the summaries are computed
SinResultados(fo) ==
  /\ festivos_objetivos' = fo
  /\ global_data' = << >>
  /\ vista' = << >>
  /\ pdf_global' = << >>
  /\ descargas' = {}

\* lines 309-831 of one run, reached with a non-empty frame df
RunDatos(btn, a, df) ==
  LET manual == manual_festivos(festivos_input')
      emp == Seleccionado(empleado_festivos', df)
      por_empleado == manual # << >> /\ ~festivos_todos'
      \* "Añadir festivos" (lines 342-358)
      dpe1 == IF btn = "AnadirFestivos" /\ por_empleado
              THEN Guardar(dias_por_empleado, emp, "Festivo", Range(manual))
              ELSE dias_por_empleado
      \* lines 366-369, on every run
      dpe2 == IF por_empleado THEN Guardar(dpe1, emp, "Festivo", Range(manual)) ELSE dpe1
      fo == FestivosObjetivos(manual, aplicar_todos_festivos')
      year == DetectYear(df)
      month == DetectMonth(df)
  IN
  /\ periodo' = [year |-> year, month |-> month]
  /\ IF btn = "AnadirFestivos" /\ manual # << >> /\ festivos_todos'
     THEN \* line 352: festivos_objetivos is not defined yet, NameError
          /\ etapa' = "festivos"
          /\ dias_por_empleado' = dias_por_empleado
          /\ carpeta' = carpeta
          /\ SinResultados({})
     ELSE IF btn = "AnadirAusencia" /\ Len(a.rango) = 2
     THEN \* lines 384-388: the two setdefault, then extend(...) raises TypeError
          /\ etapa' = "ausencias"
          /\ dias_por_empleado' =
               SetDefaultMotivo(SetDefaultEmpleado(dpe2, Seleccionado(a.empleado, df)),
                                Seleccionado(a.empleado, df), a.motivo)
          /\ carpeta' = carpeta
          /\ SinResultados({})
     ELSE IF btn = "Procesar"
     THEN LET gd == GlobalData(df, year, month, fo, dpe2)
          IN /\ etapa' = "informes"
             /\ dias_por_empleado' = dpe2
             /\ festivos_objetivos' = fo
             /\ global_data' = gd
             /\ vista' = Vista(gd)
             /\ pdf_global' = PdfGlobal(gd)
             /\ descargas' = Descargas(gd, year, month, carpeta)
             /\ carpeta' = carpeta \cup {out_global(year, month)}   \* lines 818-821
     ELSE /\ etapa' = "fin"
          /\ dias_por_empleado' = dpe2
          /\ carpeta' = carpeta
          /\ SinResultados(fo)

\* a stop before the holiday section: session data untouched
Parada(e) ==
  /\ etapa' = e
  /\ periodo' = NoPeriodo
  /\ dias_por_empleado' = dias_por_empleado
  /\ carpeta' = carpeta
  /\ SinResultados({})

\* the whole script, run once for the event btn (with its inputs a) and the widget
\* values up, fi, ft, at, ef that the browser holds at that moment
Rerun(btn, a, up, fi, ft, at, ef) ==
  /\ key_input' = (IF btn = "Activar" THEN a.key_input ELSE key_input)
  /\ uploaded' = up
  /\ festivos_input' = fi
  /\ festivos_todos' = ft
  /\ aplicar_todos_festivos' = at
  /\ empleado_festivos' = ef
  /\ activated' = (activated \/ ClaveAceptada(btn, a))
  /\ current_key' = IF ClaveAceptada(btn, a) THEN Strip(a.key_input) ELSE current_key
  /\ is_admin' = IF ClaveAceptada(btn, a) THEN Strip(a.key_input) = ADMIN_KEY ELSE is_admin
  /\ user_keys' = ClavesTrasPanel(btn, a)
  /\ IF btn = "EliminarClave" /\ OpcionesEliminar(user_keys) = << >>
     THEN Parada("sidebar")          \* user_keys.remove(None) raises ValueError
     ELSE IF ~activated' THEN Parada("gate")
     ELSE IF up = NoFile THEN Parada("upload")
     ELSE IF ~LeerFichero(up).ok THEN Parada("lectura")
     ELSE IF LeerFichero(up).df = << >> THEN Parada("mes")   \* mode()[0] on nothing
     ELSE RunDatos(btn, a, LeerFichero(up).df)

\* the last run ended in an exception that nothing catches: remove(None) (line 221),
\* mode()[0] of an empty series (line 312), NameError (line 352), TypeError (line 388)
ConExcepcion == etapa \in {"sidebar", "mes", "festivos", "ausencias"}

\* which widgets the last run rendered
UploaderVisible == etapa \notin {"sidebar", "gate"}
FestivosVisible == etapa \in {"festivos", "ausencias", "fin", "informes"}
AusenciasVisible == etapa \in {"ausencias", "fin", "informes"}
ProcesarVisible == etapa \in {"fin", "informes"}

Nada == [x |-> 0]

Init ==
  /\ activated = FALSE
  /\ current_key = << >>
  /\ is_admin = FALSE
  /\ user_keys = DEFAULT_KEYS
  /\ dias_por_empleado = << >>
  /\ key_input = << >>
  /\ uploaded = NoFile
  /\ festivos_input = << >>
  /\ festivos_todos = TRUE
  /\ aplicar_todos_festivos = TRUE
  /\ empleado_festivos = << >>
  /\ etapa = "gate"
  /\ periodo = NoPeriodo
  /\ festivos_objetivos = {}
  /\ global_data = << >>
  /\ vista = << >>
  /\ pdf_global = << >>
  /\ descargas = {}
  /\ carpeta = {}

\* the same widget values as before the event
Boton(btn, a) ==
  Rerun(btn, a, uploaded, festivos_input, festivos_todos, aplicar_todos_festivos,
        empleado_festivos)

Activar(k) == Boton("Activar", [key_input |-> k])

\* a plausible slip: the key panel is shown to every session
AnadirClave_sin_guardia(nueva) == Boton("AnadirClave", [nueva |-> nueva])

\* "Añadir clave", a button of the admin panel (lines 211-218)
AnadirClave(nueva) == is_admin /\ Boton("AnadirClave", [nueva |-> nueva])

EliminarClave(k) ==
  /\ is_admin
  /\ \/ k \in Range(OpcionesEliminar(user_keys))
     \/ OpcionesEliminar(user_keys) = << >>
  /\ Boton("EliminarClave", [to_del |-> k])

Subir(file) ==
  /\ UploaderVisible
  /\ uploaded = NoFile
  /\ Rerun("Widget", Nada, file, festivos_input, festivos_todos,
           aplicar_todos_festivos, empleado_festivos)

EscribirFestivos(input) ==
  /\ FestivosVisible
  /\ input # festivos_input
  /\ Rerun("Widget", Nada, uploaded, input, festivos_todos, aplicar_todos_festivos,
           empleado_festivos)

MarcarFestivosTodos ==
  /\ FestivosVisible
  /\ Rerun("Widget", Nada, uploaded, festivos_input, ~festivos_todos,
           aplicar_todos_festivos, empleado_festivos)

MarcarAplicarTodos ==
  /\ ProcesarVisible
  /\ Rerun("Widget", Nada, uploaded, festivos_input, festivos_todos,
           ~aplicar_todos_festivos, empleado_festivos)

ElegirEmpleadoFestivos(n) ==
  /\ FestivosVisible
  /\ n \in Range(NombresOrdenados(LeerFichero(uploaded).df))
  /\ n # Seleccionado(empleado_festivos, LeerFichero(uploaded).df)
  /\ Rerun("Widget", Nada, uploaded, festivos_input, festivos_todos,
           aplicar_todos_festivos, n)

AnadirFestivos == FestivosVisible /\ Boton("AnadirFestivos", Nada)

AnadirAusencia(n, motivo, rango) ==
  /\ AusenciasVisible
  /\ n \in Range(NombresOrdenados(LeerFichero(uploaded).df))
  /\ Boton("AnadirAusencia", [empleado |-> n, motivo |-> motivo, rango |-> rango])

Procesar == ProcesarVisible /\ Boton("Procesar", Nada)

(* ------------------------------------------------------------------ *)
(* Inputs                                                             *)
(* ------------------------------------------------------------------ *)
SeqHasta(S, n) == UNION { [1..k -> S] : k \in 0..n }

Ana == <<"Ana">>
Luis == <<"Luis">>
Lunes3Marzo == Fecha(2025, 3, 3)
Martes4Marzo == Fecha(2025, 3, 4)
Jueves1Mayo == Fecha(2025, 5, 1)      \* one of DEFAULT_FESTIVOS

Fichero(filas) == [ext |-> "xlsx", columnas |-> Roles, filas |-> filas]

\* the rows of the files of Spec: rows of Ana on a working day with an empty cell,
\* no hours or a full day, a row of hers without hours on a holiday, and one row of
\* a second employee
FilasEntrada ==
  [nombre : {Ana}, fecha : {Lunes3Marzo}, horas : {NaN, 0, 462}]
    \cup { [nombre |-> Ana, fecha |-> Jueves1Mayo, horas |-> 0],
           [nombre |-> Luis, fecha |-> Lunes3Marzo, horas |-> 462] }
Ficheros == { Fichero(fs) : fs \in SeqHasta(FilasEntrada, MaxFilas) }

\* what is typed in the holiday input: two dates of March 2025
TokensFestivos == { Lunes3Marzo, Martes4Marzo }
EntradasFestivos == SeqHasta(TokensFestivos, MaxTokens)

ClaveOperador == DEFAULT_KEYS[2]

Next ==
  \/ Activar(ClaveOperador)
  \/ \E f \in Ficheros : Subir(f)
  \/ \E i \in EntradasFestivos : EscribirFestivos(i)
  \/ MarcarFestivosTodos
  \/ MarcarAplicarTodos
  \/ AnadirFestivos
  \/ Procesar

Spec == Init /\ [][Next]_vars

(* ------------------------------------------------------------------ *)
(* Access: every key event, one file                                  *)
(* ------------------------------------------------------------------ *)
ClavesTecleadas ==
  { ADMIN_KEY, <<WS>> \o ADMIN_KEY \o <<WS>>, DEFAULT_KEYS[2], <<"CLAVE-NUEVA">>,
    <<"OTRA">>, << >> }
ClavesNuevas == { << >>, <<"CLAVE-NUEVA">>, DEFAULT_KEYS[2] }
FicheroAcceso == Fichero(<< [nombre |-> Ana, fecha |-> Lunes3Marzo, horas |-> 462] >>)

NextAcceso ==
  \/ \E k \in ClavesTecleadas : Activar(k)
  \/ \E k \in ClavesNuevas : AnadirClave(k)
  \/ \E k \in Range(DEFAULT_KEYS) \cup ClavesNuevas : EliminarClave(k)
  \/ Subir(FicheroAcceso)
  \/ Procesar

SpecAcceso == Init /\ [][NextAcceso]_vars

(* ------------------------------------------------------------------ *)
(* Manual holidays with two employees                                 *)
(* ------------------------------------------------------------------ *)
FicherosDos ==
  { Fichero(<< [nombre |-> Ana, fecha |-> Lunes3Marzo, horas |-> h],
               [nombre |-> Luis, fecha |-> Lunes3Marzo, horas |-> 462] >>) : h \in {0, 462} }

NextFestivos ==
  \/ Activar(ClaveOperador)
  \/ \E f \in FicherosDos : Subir(f)
  \/ \E i \in EntradasFestivos : EscribirFestivos(i)
  \/ MarcarFestivosTodos
  \/ MarcarAplicarTodos
  \/ \E n \in {Ana, Luis} : ElegirEmpleadoFestivos(n)
  \/ AnadirFestivos
  \/ \E n \in {Ana, Luis} : AnadirAusencia(n, "Vacaciones", <<Lunes3Marzo, Martes4Marzo>>)
  \/ Procesar

SpecFestivos == Init /\ [][NextFestivos]_vars

(* ------------------------------------------------------------------ *)
(* Severity as a function of a summary                                *)
(* ------------------------------------------------------------------ *)
MaxDiasSin == 23     \* missing-day counts drawn for the severity bands

\* a summary with n missing days and difference dif, as Procesar builds it
ResumenDe(n, dif) ==
  [Empleado |-> Ana, HorasTotales |-> 9702 + dif, ObjetivoMes |-> 9702,
   Diferencia |-> dif, HorasExtra |-> Max(0, dif), DiasConFichaje |-> 21 - n,
   DiasSinFichaje |-> n, FechasSinFichar |-> << >>, mapa_horas |-> << >>,
   Ausencias |-> {}, dias_laborables |-> << >>]

InitSeveridad ==
  /\ activated = TRUE
  /\ current_key = ClaveOperador
  /\ is_admin = FALSE
  /\ user_keys = DEFAULT_KEYS
  /\ dias_por_empleado = << >>
  /\ key_input = ClaveOperador
  /\ uploaded = FicheroAcceso
  /\ festivos_input = << >>
  /\ festivos_todos = TRUE
  /\ aplicar_todos_festivos = TRUE
  /\ empleado_festivos = << >>
  /\ etapa = "fin"
  /\ periodo = [year |-> 2025, month |-> 3]
  /\ festivos_objetivos = DEFAULT_FESTIVOS \cup FESTIVOS_ANDALUCIA
  /\ global_data \in { <<ResumenDe(n, dif)>> : n \in 0..MaxDiasSin, dif \in {0 - 462, 0, 462} }
  /\ vista = << >>
  /\ pdf_global = << >>
  /\ descargas = {}
  /\ carpeta = {}

\* the badges (lines 484-500) and the summary PDF rows (lines 765-781) of a summary
Pintar ==
  /\ etapa = "fin"
  /\ etapa' = "informes"
  /\ vista' = Vista(global_data)
  /\ pdf_global' = PdfGlobal(global_data)
  /\ descargas' = Descargas(global_data, periodo.year, periodo.month, carpeta)
  /\ carpeta' = carpeta \cup {out_global(periodo.year, periodo.month)}
  /\ UNCHANGED << activated, current_key, is_admin, user_keys, dias_por_empleado,
                  key_input, uploaded, festivos_input, festivos_todos,
                  aplicar_todos_festivos, empleado_festivos, periodo,
                  festivos_objetivos, global_data >>

SpecSeveridad == InitSeveridad /\ [][Pintar]_vars

(* ------------------------------------------------------------------ *)
(* Vocabulary of the properties                                       *)
(* ------------------------------------------------------------------ *)
EnInforme == etapa = "informes"

\* the frame the last run read
Leido == LeerFichero(uploaded).df

\* the days of the reporting month
DiasMes == Range(daterange(periodo.year, periodo.month))

\* the days declared for employee n in the session (absences and own holidays)
DiasDeclarados(n) ==
  IF n \in DOMAIN dias_por_empleado
  THEN UNION { dias_por_empleado[n][k] : k \in DOMAIN dias_por_empleado[n] }
  ELSE {}

\* the dates on which employee n has a row, and the hours of those rows
FechasConFila(n) == { Leido[i].fecha : i \in { j \in DOMAIN Leido : Leido[j].nombre = n } }
HorasFilas(df, n, d) ==
  SumSeq([ i \in DOMAIN df |->
             IF df[i].nombre = n /\ df[i].fecha = d /\ df[i].horas # NaN
             THEN df[i].horas ELSE 0 ])

Entradas == Range(global_data)

(* ------------------------------------------------------------------ *)
(* C1                                                                 *)
(* ------------------------------------------------------------------ *)
\* C1 (as amended): a day of the reporting month is counted as a working day of
\* an employee only if it is Monday-Friday, is none of the days declared for that
\* employee, and is either outside the common holiday set or a date on which the
\* employee has a row in the file.
C1_DiasLaborables ==
  EnInforme =>
    \A e \in Entradas :
      /\ Range(e.dias_laborables) \subseteq DiasMes
      /\ \A d \in Range(e.dias_laborables) :
           /\ Weekday(d) < 5
           /\ d \notin DiasDeclarados(e.Empleado)
           /\ (d \notin festivos_objetivos \/ d \in FechasConFila(e.Empleado))

\* C1 as stated: a working day is Monday-Friday, in no holiday set and not declared,
\* whatever the hours map holds.
C1_Original ==
  EnInforme =>
    \A e \in Entradas :
      \A d \in Range(e.dias_laborables) :
        /\ Weekday(d) < 5
        /\ d \notin festivos_objetivos
        /\ d \notin DiasDeclarados(e.Empleado)

\* a run in which a holiday with a row is counted and a declared weekday is not
C1_Witness ==
  /\ EnInforme
  /\ \E e \in Entradas :
       /\ \E d \in Range(e.dias_laborables) : d \in festivos_objetivos
       /\ \E d \in DiasMes :
            Weekday(d) < 5 /\ d \in DiasDeclarados(e.Empleado)
              /\ d \notin Range(e.dias_laborables)

(* ------------------------------------------------------------------ *)
(* C2                                                                 *)
(* ------------------------------------------------------------------ *)
\* C2: a day of the reporting month is in the missing-day list if and only if it is
\* one of the employee's working days and has no row or zero summed hours.
C2_Original ==
  EnInforme =>
    \A e \in Entradas :
      \A d \in DiasMes :
        d \in Range(e.FechasSinFichar)
          <=> (d \in Range(e.dias_laborables) /\ HorasFilas(Leido, e.Empleado, d) = 0)

(* ------------------------------------------------------------------ *)
(* C3                                                                 *)
(* ------------------------------------------------------------------ *)
\* C3: no day with positive summed hours is in the missing-day list, holidays
\* included, and the missing-day count is the number of days of that list.
C3_SinFicharSinHoras ==
  EnInforme =>
    \A e \in Entradas :
      /\ \A d \in DiasMes \cup FechasConFila(e.Empleado) :
           HorasFilas(Leido, e.Empleado, d) > 0 => d \notin Range(e.FechasSinFichar)
      /\ e.DiasSinFichaje = Cardinality(Range(e.FechasSinFichar))

\* a run with positive hours on a weekday holiday, and with some missing days
C3_Witness ==
  /\ EnInforme
  /\ \E e \in Entradas :
       /\ e.DiasSinFichaje > 0
       /\ \E d \in DiasMes \cap festivos_objetivos :
            Weekday(d) < 5 /\ HorasFilas(Leido, e.Empleado, d) > 0

(* ------------------------------------------------------------------ *)
(* C4                                                                 *)
(* ------------------------------------------------------------------ *)
DiasEntreSemana == { d \in DiasMes : Weekday(d) < 5 }

\* the example of C4: 21 weekdays, two of them declared, none a holiday
C4_Ejemplo(e) ==
  /\ Cardinality(DiasEntreSemana) = 21
  /\ Cardinality(DiasEntreSemana \cap DiasDeclarados(e.Empleado)) = 2
  /\ DiasEntreSemana \cap festivos_objetivos = {}

\* C4: the monthly target is the number of working days times a fifth of the
\* weekly target, 38.5 h a week being 7.7 h a day (2310 and 462 minutes); 21
\* weekdays with two declared and no holiday give 19 working days and 146.3 h
\* (8778 minutes).
C4_Objetivo ==
  /\ HORAS_SEMANALES = 2310 /\ HORAS_LABORALES_DIA = 462
  /\ EnInforme =>
       \A e \in Entradas :
         /\ 5 * e.ObjetivoMes = Len(e.dias_laborables) * HORAS_SEMANALES
         /\ C4_Ejemplo(e) => Len(e.dias_laborables) = 19 /\ e.ObjetivoMes = 8778

\* a run of the example
C4_Witness ==
  EnInforme /\ \E e \in Entradas : C4_Ejemplo(e) /\ e.ObjetivoMes = 8778

(* ------------------------------------------------------------------ *)
(* C5                                                                 *)
(* ------------------------------------------------------------------ *)
\* the missing-day count of entry e with holiday set F and declared days A
SinFicharCon(e, F, A) ==
  Len(dias_sin_fichar_list(
        dias_laborables(daterange(periodo.year, periodo.month), F, A, e.mapa_horas),
        F, e.mapa_horas))

\* C5: with the month and the hours map fixed, taking holidays or declared days out
\* of the exclusion sets never lowers the missing-day count.
C5_Monotonia ==
  EnInforme =>
    \A e \in Entradas :
      LET F == festivos_objetivos
          A == DiasDeclarados(e.Empleado)
      IN /\ e.DiasSinFichaje = SinFicharCon(e, F, A)
         /\ \A F2 \in SUBSET (F \cap DiasMes) :
              \A A2 \in SUBSET (A \cap DiasMes) :
                SinFicharCon(e, F2, A2) >= e.DiasSinFichaje

\* a run with a holiday and a declared day in the month, where dropping them
\* raises the count
C5_Witness ==
  /\ EnInforme
  /\ \E e \in Entradas :
       /\ festivos_objetivos \cap DiasMes # {}
       /\ DiasDeclarados(e.Empleado) \cap DiasMes # {}
       /\ SinFicharCon(e, {}, {}) > e.DiasSinFichaje

(* ------------------------------------------------------------------ *)
(* C6                                                                 *)
(* ------------------------------------------------------------------ *)
\* the rows of df rearranged by the permutation p
Permutado(df, p) == [ i \in DOMAIN df |-> df[p[i]] ]

\* row k of df replaced by two rows of the same employee and date whose hours add
\* up to the hours of row k
Partido(df, k, h1) ==
  SubSeq(df, 1, k - 1)
    \o << [df[k] EXCEPT !.horas = h1], [df[k] EXCEPT !.horas = df[k].horas - h1] >>
    \o SubSeq(df, k + 1, Len(df))

TotalDe(df, n) ==
  LET rs == resumen_empleados(df)
  IN SumSeq([ i \in DOMAIN rs |-> IF rs[i].nombre = n THEN rs[i].total_horas ELSE 0 ])

\* C6: the total of an employee is the sum over the dates of the map of the hours
\* summed per date, and it is the same for every order of the rows and for every
\* split of the hours of one row over two rows of the same date.
C6_TotalHoras ==
  EnInforme =>
    \A e \in Entradas :
      /\ e.HorasTotales = SumSet(e.mapa_horas, DOMAIN e.mapa_horas)
      /\ \A d \in DOMAIN e.mapa_horas : e.mapa_horas[d] = HorasFilas(Leido, e.Empleado, d)
      /\ \A p \in Permutations(DOMAIN Leido) :
           TotalDe(Permutado(Leido, p), e.Empleado) = e.HorasTotales
      /\ \A k \in DOMAIN Leido :
           Leido[k].horas # NaN =>
             \A h1 \in {0, Leido[k].horas \div 2, Leido[k].horas} :
               TotalDe(Partido(Leido, k, h1), e.Empleado) = e.HorasTotales

\* a run with two rows of one employee on one date, with different hours
C6_Witness ==
  /\ EnInforme
  /\ \E e \in Entradas :
       \E i, j \in DOMAIN Leido :
         /\ i < j
         /\ Leido[i].nombre = e.Empleado /\ Leido[j].nombre = e.Empleado
         /\ Leido[i].fecha = Leido[j].fecha
         /\ Leido[i].horas = 462 /\ Leido[j].horas = 0
         /\ e.HorasTotales = 462

(* ------------------------------------------------------------------ *)
(* C7                                                                 *)
(* ------------------------------------------------------------------ *)
Banda(n) == IF n <= 2 THEN "normal" ELSE IF n <= 4 THEN "attention" ELSE "critical"

BandaVista(c) ==
  IF c = "#f8d7da" THEN "critical" ELSE IF c = "#fff3cd" THEN "attention"
  ELSE IF c = "#e6ffef" THEN "normal" ELSE "?"

BandaPdf(c) ==
  IF c = "COLOR_SIN_GRAVE" THEN "critical"
  ELSE IF c = "COLOR_SIN_MODERADO" THEN "attention" ELSE "normal"

\* C7: the on-screen badge and the summary PDF row derive the same band from the
\* missing-day count: up to 2 normal, 3-4 attention, above 4 critical; 2, 3 and 5
\* are normal, attention and critical.
C7_Bandas ==
  /\ \A dif \in {0 - 462, 0, 462} :
       /\ <<BandaVista(color(2)), BandaVista(color(3)), BandaVista(color(5))>>
            = <<"normal", "attention", "critical">>
       /\ << BandaPdf(row_color(2, Max(0, dif), dif)), BandaPdf(row_color(3, Max(0, dif), dif)),
              BandaPdf(row_color(5, Max(0, dif), dif)) >>
            = <<"normal", "attention", "critical">>
  /\ EnInforme =>
       \A i \in DOMAIN global_data :
         /\ BandaVista(vista[i]) = Banda(global_data[i].DiasSinFichaje)
         /\ BandaPdf(pdf_global[i]) = Banda(global_data[i].DiasSinFichaje)

\* a summary with 4 missing days painted as attention in both places
C7_Witness ==
  /\ EnInforme
  /\ \E i \in DOMAIN global_data :
       /\ global_data[i].DiasSinFichaje = 4
       /\ vista[i] = "#fff3cd"
       /\ pdf_global[i] = "COLOR_SIN_MODERADO"

(* ------------------------------------------------------------------ *)
(* C8                                                                 *)
(* ------------------------------------------------------------------ *)
TrasLaPuerta ==
  \/ uploaded # NoFile
  \/ etapa \in {"upload", "lectura", "mes", "festivos", "ausencias", "fin", "informes"}
  \/ global_data # << >>
  \/ descargas # {}

\* C8: upload, processing and reports are reached only in an activated session; a
\* session becomes activated only by a submitted key that is in the key list at
\* that moment; a submitted key that is not in the list leaves activated,
\* current_key and is_admin as they were.
C8_Acceso ==
  /\ [](TrasLaPuerta => activated)
  /\ [][ /\ (~activated /\ activated') =>
             (Strip(key_input') \in Range(user_keys) /\ current_key' = Strip(key_input'))
         /\ Strip(key_input') \notin Range(user_keys) =>
             UNCHANGED <<activated, current_key, is_admin>> ]_vars

\* reports produced in a session whose last submitted key was refused
C8_Witness ==
  /\ EnInforme /\ activated
  /\ current_key \in Range(user_keys)
  /\ Strip(key_input) \notin Range(user_keys)

(* ------------------------------------------------------------------ *)
(* C9                                                                 *)
(* ------------------------------------------------------------------ *)
SinIndice(keys, i) == SubSeq(keys, 1, i - 1) \o SubSeq(keys, i + 1, Len(keys))

\* C9: is_admin holds exactly when current_key is ADMIN_KEY, and the key list
\* changes only by one key added or one key removed in a step taken while
\* is_admin holds.
C9_Admin ==
  /\ [](is_admin <=> current_key = ADMIN_KEY)
  /\ [][ user_keys' # user_keys =>
           /\ is_admin
           /\ \/ /\ Len(user_keys') = Len(user_keys) + 1
                 /\ SubSeq(user_keys', 1, Len(user_keys)) = user_keys
              \/ \E i \in DOMAIN user_keys : user_keys' = SinIndice(user_keys, i) ]_vars

\* a session now working with a key that an administrator added earlier
C9_Witness ==
  /\ activated /\ ~is_admin
  /\ current_key = <<"CLAVE-NUEVA">>
  /\ DEFAULT_KEYS[3] \notin Range(user_keys)

(* ------------------------------------------------------------------ *)
(* C10                                                                *)
(* ------------------------------------------------------------------ *)
\* the summaries the last run would have given without any manual holiday
SinFestivosManuales ==
  GlobalData(Leido, periodo.year, periodo.month, DEFAULT_FESTIVOS \cup FESTIVOS_ANDALUCIA,
             dias_por_empleado)

\* C10 (its frame part): when a holiday is added for the selected employee only
\* ("apply to all" not chosen), the working days, the target and the missing days
\* of every other employee, for whom it was never added, are those of a run
\* without that holiday.
C10_Original ==
  (EnInforme /\ ~festivos_todos /\ manual_festivos(festivos_input) # << >>) =>
    \A i \in DOMAIN global_data :
      LET e == global_data[i]
          b == SinFestivosManuales[i]
      IN (e.Empleado # Seleccionado(empleado_festivos, Leido)
            /\ DiasDeclarados(e.Empleado) = {}) =>
           /\ e.dias_laborables = b.dias_laborables
           /\ e.ObjetivoMes = b.ObjetivoMes
           /\ e.FechasSinFichar = b.FechasSinFichar

(* ------------------------------------------------------------------ *)
(* C11                                                                *)
(* ------------------------------------------------------------------ *)
\* C11: after "Añadir ausencia" pressed for an employee with reason Vacaciones and
\* the range 2025-03-03 .. 2025-03-04, every date of the range is stored under
\* that reason for that employee in the session.
C11_Original ==
  etapa = "ausencias" =>
    \E n \in {Ana, Luis} :
      /\ n \in DOMAIN dias_por_empleado
      /\ "Vacaciones" \in DOMAIN dias_por_empleado[n]
      /\ {Lunes3Marzo, Martes4Marzo} \subseteq dias_por_empleado[n]["Vacaciones"]

(* ------------------------------------------------------------------ *)
(* Reading: files of both kinds, with and without the required columns *)
(* ------------------------------------------------------------------ *)
Jueves2Mayo2024 == Fecha(2024, 5, 2)
SinDia == Fecha(2025, 13, 1)          \* a cell that is not a date

\* rows dated in two different years and months, a row with a blank name and a row
\* whose date cannot be parsed
FilasLectura ==
  { [nombre |-> Ana, fecha |-> Jueves2Mayo2024, horas |-> 462],
    [nombre |-> Ana, fecha |-> Lunes3Marzo, horas |-> 462],
    [nombre |-> <<WS>>, fecha |-> Lunes3Marzo, horas |-> 462],
    [nombre |-> Ana, fecha |-> SinDia, horas |-> 462] }

FicherosLectura ==
  { [ext |-> x, columnas |-> c, filas |-> fs] :
      x \in {"xlsx", "csv"}, c \in {Roles, Roles \ {"horas"}, Roles \ {"fecha"}},
      fs \in SeqHasta(FilasLectura, MaxFilas) }

NextLectura ==
  \/ Activar(ClaveOperador)
  \/ \E f \in FicherosLectura : Subir(f)
  \/ Procesar

SpecLectura == Init /\ [][NextLectura]_vars

(* ------------------------------------------------------------------ *)
(* C12                                                                *)
(* ------------------------------------------------------------------ *)
\* C12: when the file was read and no row is left, the run stops with a message:
\* no exception goes uncaught, the month is not derived, no summary is computed
\* and no report is offered.
C12_Original ==
  (activated /\ uploaded # NoFile /\ LeerFichero(uploaded).ok /\ Leido = << >>) =>
    /\ ~ConExcepcion
    /\ periodo = NoPeriodo
    /\ global_data = << >>
    /\ descargas = {}

(* ------------------------------------------------------------------ *)
(* C13                                                                *)
(* ------------------------------------------------------------------ *)
\* C13: for a spreadsheet and for a CSV alike, when a required column is missing
\* the run shows an error that lists the columns found, reads no record and stops
\* before anything is computed.
C13_Original ==
  (activated /\ uploaded # NoFile /\ ~(Roles \subseteq uploaded.columnas)) =>
    /\ etapa = "lectura"
    /\ "Columnas encontradas" \in ErroresLectura(uploaded)
    /\ Leido = << >>
    /\ periodo = NoPeriodo /\ global_data = << >> /\ descargas = {}

(* ------------------------------------------------------------------ *)
(* C16                                                                *)
(* ------------------------------------------------------------------ *)
\* the rows of df dated in year y and month m
FilasDe(df, y, m) == { i \in DOMAIN df : df[i].fecha.y = y /\ df[i].fecha.m = m }

\* C16: with at least one record, the period derived is a (year, month) in which a
\* record is dated, and no other (year, month) has more records.
C16_Original ==
  (periodo # NoPeriodo /\ Leido # << >>) =>
    /\ FilasDe(Leido, periodo.year, periodo.month) # {}
    /\ \A i \in DOMAIN Leido :
         Cardinality(FilasDe(Leido, Leido[i].fecha.y, Leido[i].fecha.m))
           <= Cardinality(FilasDe(Leido, periodo.year, periodo.month))

(* ------------------------------------------------------------------ *)
(* C14                                                                *)
(* ------------------------------------------------------------------ *)
\* C14: after a processing run that ends without error, the PDF of every employee
\* of the input and the summary PDF, with one row per employee, have been written
\* and each of them is offered for download.
C14_Original ==
  EnInforme =>
    /\ \A e \in Entradas :
         /\ pdf_name(e.Empleado, periodo.year, periodo.month) \in carpeta
         /\ pdf_name(e.Empleado, periodo.year, periodo.month) \in descargas
    /\ out_global(periodo.year, periodo.month) \in carpeta \cap descargas
    /\ Len(pdf_global) = Len(global_data)

(* ------------------------------------------------------------------ *)
(* C15                                                                *)
(* ------------------------------------------------------------------ *)
\* C15: in every summary the days with a record plus the days without one are the
\* working days behind the target; each working day either has positive hours or is
\* listed as missing, and never both.
C15_Original ==
  EnInforme =>
    \A e \in Entradas :
      /\ e.DiasConFichaje + e.DiasSinFichaje = Len(e.dias_laborables)
      /\ \A d \in Range(e.dias_laborables) :
           (d \in DOMAIN e.mapa_horas /\ e.mapa_horas[d] > 0)
             <=> d \notin Range(e.FechasSinFichar)

(* ------------------------------------------------------------------ *)
(* C17                                                                *)
(* ------------------------------------------------------------------ *)
\* C17: whenever the session is activated its current_key is in the key list, and
\* the admin key is always in the list.
C17_ClaveEnLista ==
  /\ activated => current_key \in Range(user_keys)
  /\ ADMIN_KEY \in Range(user_keys)

\* an administrator has removed every key the selectbox offers
C17_Witness ==
  /\ activated /\ is_admin
  /\ current_key = ADMIN_KEY
  /\ user_keys = <<ADMIN_KEY>>

====
